---- MODULE Spec2Model ----
(***************************************************************************)
(* Model of the ComfyUI process supervisor (python/launch_server.py).      *)
(*                                                                         *)
(* Threads: the host's UI thread (it calls launch_comfyui_server and       *)
(* stop_comfyui_server), one reader thread per spawned child               *)
(* (_reader_loop), and a thread that calls wait_until_ready.               *)
(* Entering a `with _status_lock:` block (together with its body), leaving *)
(* it, every access of _process and the callback invocation are separate   *)
(* steps.  Computation on locals only is part of the step before it.       *)
(*                                                                         *)
(* And of the workflow importer (python/comfy_to_nuke.py): one call of     *)
(* import_comfyui_workflow runs on the UI thread from the file dialog to   *)
(* the summary message; every call into the host (createNode, setName,     *)
(* knobs, maxInputs, setInput, beginUndo, endUndo) is a step, and the host *)
(* may raise in each of the calls that the code guards with try.           *)
(*                                                                         *)
(* And of the menu (menu.py) that drives the supervisor: _toggle_server    *)
(* on the UI thread, the _waiter thread it starts after every launch, and  *)
(* _on_status_change as the registered status callback.                    *)
(***************************************************************************)
EXTENDS Integers, FiniteSets, Sequences, TLC

\* ---- bounds ------------------------------------------------------------
\* Number of child processes that can be spawned in one behaviour.
MaxProcs == 2
\* The same, in the specification that registers status callbacks.
MaxCbProcs == 1
\* Longest node list of an imported document; node ids are 1..MaxNodes.
MaxNodes == 2
\* Longest link list of an imported document.
MaxLinks == 2
\* Number of import_comfyui_workflow calls in one behaviour.
MaxImports == 2
\* Number of host calls (createNode, setName, knob, setInput) that raise in
\* one behaviour.
MaxFaults == 2
\* Largest answer of dst.maxInputs().
MaxInputs == 2

\* ---- thread and handle identities --------------------------------------
NoProc == 0                      \* _process = None
Procs == 1..MaxProcs             \* child processes; reader thread p reads child p
Main == 0                        \* the UI thread
Waiter == MaxProcs + 1           \* the thread inside wait_until_ready
Free == MaxProcs + 2             \* _status_lock is not held
Threads == 0..(MaxProcs + 1)

Statuses == {"idle", "launching", "already_running", "running", "error", "stopped"}
terminal == {"running", "already_running", "error"}
Callbacks == {"none", "ok", "raising"}

VARIABLES
  process,        \* _process: NoProc or the child the handle refers to
  alive,          \* per child: "unborn", "alive" (poll() is None) or "dead"
  last_status,    \* _last_status
  status_cb,      \* _status_cb: which kind of callback is registered
  status_lock,    \* holder of _status_lock, or Free
  pc,             \* per thread: position in its code
  arg,            \* per thread: argument of the _set_status call in progress
  ret,            \* per thread: where the _set_status call in progress returns to
  cb,             \* per thread: local `cb` of _set_status
  proc,           \* local `proc` of stop_comfyui_server
  url_reported,   \* per reader: local `url_reported`
  current,        \* per reader: local `current`
  status,         \* local `status` of wait_until_ready ("unbound" before assignment)
  result,         \* what the wait_until_ready call that just ended returned
  path,           \* which branch the running launch/stop call took
  spawnedAtCall,  \* number of children spawned when the last launch call began
  unlocked,       \* shared objects that were accessed without holding the lock
  pending,        \* stores made with a callback registered and not yet delivered
  nRunning,       \* per reader: how often it called _set_status("running")
  stopSince,      \* stop was called since the last launch call began
  sawExit,        \* the waiter's current iteration began after the child had exited
  spawnLimit      \* how many children the behaviour may spawn (MaxProcs or less)

\* The workflow importer (python/comfy_to_nuke.py) and the host's node graph.
VARIABLES
  scope,          \* which documents and links the behaviour imports ("off": none)
  ipc,            \* position of the UI thread inside import_comfyui_workflow
  file,           \* the JSON document the user selects
  imports,        \* number of import_comfyui_workflow calls made so far
  nodes,          \* wf.nodes
  links,          \* wf.links: "list", or "notlist" for a value that is not iterable
  ni,             \* index in wf.nodes of the entry the creation loop is at
  created,        \* local `created`: per id the host node stored for it (0: no key)
  name,           \* local `name` of _create_nuke_node_for_comfy / _safe_name
  idx,            \* local `idx` of _safe_name
  nn,             \* the host node being built (index in dag, 0: none)
  dag,            \* the host's node graph: every node ever created
  raising,        \* an exception is propagating out of the import
  undoOpen,       \* nuke.beginUndo calls of this import
  undoClosed,     \* nuke.endUndo calls of this import
  message,        \* the last nuke.message of this import
  li,             \* number of link entries the connect loop has taken
  link,           \* the link entry being processed
  src,            \* local `src` of _connect_nodes (index in dag)
  dst,            \* local `dst` of _connect_nodes (index in dag)
  slot,           \* local `slot`
  max_inputs,     \* local `max_inputs`
  dstInputs,      \* what dst.maxInputs() answered for this link
  connected,      \* local `connections` / `connected`
  setInputCalls,  \* number of dst.setInput calls of this import
  skipped,        \* number of link entries of this import that were skipped
  failed,         \* entries of this import for which a host call raised
  faults          \* number of host calls that raised in this behaviour

importer == <<scope, ipc, file, imports, nodes, links, ni, created, name, idx,
              nn, dag, raising, undoOpen, undoClosed, message, li, link, src,
              dst, slot, max_inputs, dstInputs, connected, setInputCalls,
              skipped, failed, faults>>

\* The menu (menu.py) that drives the supervisor.
VARIABLES
  CURRENT_STATUS, \* _CURRENT_STATUS: the status the menu tracks
  toggle,         \* where the UI thread is inside _toggle_server ("none": outside)
  tstatus,        \* local `status` of _toggle_server
  delivered       \* the status last passed to the registered callback

menu == <<CURRENT_STATUS, toggle, tstatus, delivered>>

supervisor == <<process, alive, last_status, status_cb, status_lock, pc, arg, ret, cb,
                proc, url_reported, current, status, result, path, spawnedAtCall,
                unlocked, pending, nRunning, stopSince,
                sawExit, spawnLimit, menu>>

vars == <<supervisor, importer>>

shared == <<process, alive, last_status, status_cb, status_lock, spawnLimit>>
readerLocals == <<url_reported, current, nRunning>>
waiterLocals == <<status, result, sawExit>>
mainLocals == <<proc, path, spawnedAtCall, stopSince>>
cbGhosts == <<pending>>

\* ---- helpers -----------------------------------------------------------
\* Popen.poll() is None: the child has not exited.
Live(p) == alive[p] = "alive"

\* Position of a status in idle -> launching -> {running|already_running|error} -> stopped.
Rank(s) == CASE s = "idle" -> 0
             [] s = "launching" -> 1
             [] s \in terminal -> 2
             [] OTHER -> 3

Min(a, b) == IF a <= b THEN a ELSE b

Spawned == {p \in Procs : alive[p] # "unborn"}

\* The child spawned most recently (ids are handed out in order), 0 if none.
lastChild == Cardinality(Spawned)

\* Record an access of a shared object by thread t.
Access(t, obj) == IF status_lock = t THEN unlocked ELSE unlocked \cup {obj}

\* No launch or stop is running and every started reader has finished.
Quiescent == /\ pc[Main] = "idle"
             /\ \A p \in Procs : pc[p] \in {"none", "done"}

\* The child of the current launch attempt exited by itself (no stop was
\* called) and its reader never matched a URL.
ExitedNoUrl ==
  /\ lastChild > spawnedAtCall
  /\ ~Live(lastChild)
  /\ ~url_reported[lastChild]
  /\ ~stopSince

\* ---- importer: documents, links and host nodes -----------------------------
None == "None"                   \* a key that is absent (dict.get gives None)
NoId == 0                        \* n.get("id") is not an int
Ids == 1..MaxNodes

Types == {"LoadImage", "SaveImage", "SaveImageSimple", "KSampler"}

\* A mapping table without the key "SaveImageSimple".
NODE_TYPE_MAP_short(ct) ==
  CASE ct = "LoadImage" -> "Read"
    [] ct = "SaveImage" -> "Write"
    [] OTHER -> "NoOp"

\* comfy_to_nuke.py:59-63, 68: NODE_TYPE_MAP.get(ctype, "NoOp").
NODE_TYPE_MAP(ct) ==
  CASE ct = "LoadImage" -> "Read"
    [] ct = "SaveImage" -> "Write"
    [] ct = "SaveImageSimple" -> "Write"
    [] OTHER -> "NoOp"

\* comfy_to_nuke.py:67: node.get("type") or node.get("class_type") or "Unknown".
ctype(node) ==
  IF node.type # None THEN node.type
  ELSE IF node.class_type # None THEN node.class_type
  ELSE "Unknown"

\* A node entry that is not a JSON object (a number, a string, a list).
NotDict == [kind |-> "other", id |-> NoId, type |-> None, class_type |-> None]

\* Node entries that are JSON objects: with or without an integer id, with a
\* type, with only a class_type, or with neither.
DictEntries ==
  {e \in [kind : {"dict"}, id : Ids \cup {NoId}, type : Types \cup {None},
          class_type : {None, "LoadImage"}] :
     e.type = None \/ e.class_type = None}

Entries == DictEntries \cup {NotDict}

SeqsUpTo(S, n) == UNION {[1..k -> S] : k \in 0..n}

\* The user's answer to nuke.getFilename and the content of the file:
\* kind "cancel" (no file chosen), "missing" (not a file), "badjson" (open or
\* json.load raises), "notobject" (valid JSON that is not an object), "object".
\* `wrapped`: the node and link lists are under the key "graph", not at top level.
NoFile == [kind |-> "nofile", nodes |-> <<>>, wrapped |-> FALSE, links |-> "list"]

NonObjects ==
  [kind : {"cancel", "missing", "badjson", "notobject"}, nodes : {<<>>},
   wrapped : {FALSE}, links : {"list"}]

\* Documents of the behaviours that examine node creation.
NodeDocs ==
  NonObjects
  \cup [kind : {"object"}, nodes : SeqsUpTo(Entries, MaxNodes),
        wrapped : {FALSE}, links : {"list", "notlist"}]
  \cup [kind : {"object"}, nodes : SeqsUpTo(Entries, 1),
        wrapped : {TRUE}, links : {"list"}]

\* Documents of the behaviours that examine linking: one or more well-formed
\* entries with ids.
LinkDocs ==
  [kind : {"object"},
   nodes : {ns \in SeqsUpTo(DictEntries, MaxNodes) :
              /\ Len(ns) >= 1
              /\ \A i \in 1..Len(ns) :
                   ns[i] \in [kind : {"dict"}, id : Ids,
                              type : {"LoadImage", "KSampler"}, class_type : {None}]},
   wrapped : {FALSE}, links : {"list"}]

Docs(sc) == IF sc = "nodes" THEN NodeDocs ELSE LinkDocs

\* A JSON value in the place of a link's target slot: an integer, an absent
\* or null value, a string, or a float too large for a double (1e999, which
\* json.load reads as float("inf")).
IntVal(k) == [t |-> "int", v |-> k]
SlotValues ==
  {IntVal(k) : k \in -1..MaxInputs}
  \cup {[t |-> "none", v |-> 0], [t |-> "str", v |-> 0], [t |-> "inf", v |-> 0]}

\* isinstance(v, (int, float)), comfy_to_nuke.py:177.
IsNumber(v) == v.t \in {"int", "inf"}
\* int(v): OverflowError for an infinite float.
IntRaises(v) == v.t = "inf"
IntOf(v) == v.v

\* Link entries: form "list" (a sequence of five or more elements), "dict",
\* "short" (a sequence of fewer than five), "other" (a number, a string).
\* src and dst are the ids given, NoId for a value that is not an int.
NoLink == [form |-> "nolink", src |-> NoId, dst |-> NoId, dst_slot |-> IntVal(0)]

AllLinks ==
  [form : {"list", "dict"}, src : Ids \cup {NoId}, dst : Ids \cup {NoId},
   dst_slot : SlotValues]
  \cup [form : {"short", "other"}, src : {NoId}, dst : {NoId}, dst_slot : {IntVal(0)}]

\* The links of the behaviours that examine node creation.
FewLinks ==
  {[form |-> "list", src |-> 1, dst |-> MaxNodes, dst_slot |-> IntVal(0)],
   [form |-> "other", src |-> NoId, dst |-> NoId, dst_slot |-> IntVal(0)]}

LinkEntries(sc) == IF sc = "nodes" THEN FewLinks ELSE AllLinks

\* comfy_to_nuke.py:154, 160: dst_slot as the two forms read it
\* (`link.get("to_slot") or link.get("dst_slot") or 0` for a dict).
DstSlot(l) ==
  IF l.form = "dict" /\ l.dst_slot.t = "none" THEN IntVal(0) ELSE l.dst_slot

\* Host node names: the importer's "CU_<base>" (idx 1) and "CU_<base>_<idx>",
\* and the names the host gives by itself (base "auto", idx the node's serial).
NoName == [base |-> "none", idx |-> 0]
HostName(serial) == [base |-> "auto", idx |-> serial]

\* nuke.exists(name).
Exists(nm) == \E i \in DOMAIN dag : dag[i].name = nm

\* Host nodes created by the import in progress (or the last one).
ThisPass == {i \in DOMAIN dag : dag[i].pass = imports}

NoMessage == [kind |-> "none", nodes |-> 0, links |-> 0]

\* Host calls may raise while the behaviour has faults left.
FaultLimit == IF scope = "nodes" THEN MaxFaults ELSE 1
Outcomes == IF faults < FaultLimit THEN BOOLEAN ELSE {TRUE}

\* No import has been made; the node graph is empty.
ImporterInit(sc) ==
  /\ scope = sc
  /\ ipc = "idle"
  /\ file = NoFile
  /\ imports = 0
  /\ nodes = <<>>
  /\ links = "list"
  /\ ni = 0
  /\ created = [i \in Ids |-> 0]
  /\ name = NoName
  /\ idx = 0
  /\ nn = 0
  /\ dag = <<>>
  /\ raising = FALSE
  /\ undoOpen = 0
  /\ undoClosed = 0
  /\ message = NoMessage
  /\ li = 0
  /\ link = NoLink
  /\ src = 0
  /\ dst = 0
  /\ slot = 0
  /\ max_inputs = 0
  /\ dstInputs = 0
  /\ connected = 0
  /\ setInputCalls = 0
  /\ skipped = 0
  /\ failed = {}
  /\ faults = 0

\* The module state after import (launch_server.py:69-76).
SupervisorInit(limit) ==
  /\ spawnLimit = limit
  /\ CURRENT_STATUS = "idle"
  /\ toggle = "none"
  /\ tstatus = "idle"
  /\ delivered = "idle"
  /\ process = NoProc
  /\ alive = [p \in Procs |-> "unborn"]
  /\ last_status = "idle"
  /\ status_cb = "none"
  /\ status_lock = Free
  /\ pc = [t \in Threads |-> IF t \in Procs THEN "none" ELSE "idle"]
  /\ arg = [t \in Threads |-> "idle"]
  /\ ret = [t \in Threads |-> "idle"]
  /\ cb = [t \in Threads |-> "none"]
  /\ proc = NoProc
  /\ url_reported = [p \in Procs |-> FALSE]
  /\ current = [p \in Procs |-> "idle"]
  /\ status = "unbound"
  /\ result = "none"
  /\ path = "none"
  /\ spawnedAtCall = 0
  /\ unlocked = {}
  /\ pending = 0
  /\ nRunning = [p \in Procs |-> 0]
  /\ stopSince = FALSE
  /\ sawExit = FALSE

InitWith(limit) == SupervisorInit(limit) /\ ImporterInit("off")

Init == InitWith(MaxProcs)

\* ---- _set_status -------------------------------------------------------
\* Thread t calls _set_status(s) and continues at r when it returns.
Call(t, s, r) ==
  /\ pc' = [pc EXCEPT ![t] = "set_lock"]
  /\ arg' = [arg EXCEPT ![t] = s]
  /\ ret' = [ret EXCEPT ![t] = r]

Goto(t, l) == pc' = [pc EXCEPT ![t] = l] /\ UNCHANGED <<arg, ret>>

\* Return of _set_status to its caller.
Return(t) ==
  /\ pc' = [pc EXCEPT ![t] = ret[t]]
  /\ arg' = [arg EXCEPT ![t] = "idle"]
  /\ ret' = [ret EXCEPT ![t] = "idle"]
  /\ cb' = [cb EXCEPT ![t] = "none"]

\* launch_server.py:90-94: the locked part of _set_status up to the read of
\* _status_cb (the lock is still held when this step ends).
set_status_store(t) ==
  /\ pc[t] = "set_lock"
  /\ status_lock = Free
  /\ status_lock' = t
  /\ last_status' = arg[t]
  /\ cb' = [cb EXCEPT ![t] = status_cb]
  /\ pending' = pending + (IF status_cb # "none" THEN 1 ELSE 0)
  /\ pc' = [pc EXCEPT ![t] = "set_unlock"]
  /\ UNCHANGED <<spawnLimit, process, alive, status_cb, arg, ret, unlocked,
                 readerLocals, waiterLocals, mainLocals>>
  /\ UNCHANGED importer
  /\ UNCHANGED menu

\* The callback is invoked before the lock is released.
set_status_release_held(t) ==
  /\ pc[t] = "set_unlock"
  /\ status_lock = t
  /\ IF cb[t] = "none"
       THEN /\ status_lock' = Free
            /\ Return(t)
       ELSE /\ pc' = [pc EXCEPT ![t] = "set_cb"]
            /\ UNCHANGED <<spawnLimit, status_lock, arg, ret, cb>>
  /\ UNCHANGED <<spawnLimit, process, alive, last_status, status_cb, unlocked,
                 cbGhosts, readerLocals, waiterLocals, mainLocals>>
  /\ UNCHANGED importer
  /\ UNCHANGED menu

\* launch_server.py:94-96: leaving the `with _status_lock:` block; with no
\* callback registered (`if cb:` is false) _set_status returns.
set_status_release(t) ==
  /\ pc[t] = "set_unlock"
  /\ status_lock = t
  /\ status_lock' = Free
  /\ IF cb[t] = "none"
       THEN Return(t)
       ELSE /\ pc' = [pc EXCEPT ![t] = "set_cb"]
            /\ UNCHANGED <<arg, ret, cb>>
  /\ UNCHANGED <<spawnLimit, process, alive, last_status, status_cb, unlocked,
                 cbGhosts, readerLocals, waiterLocals, mainLocals>>
  /\ UNCHANGED importer
  /\ UNCHANGED menu

\* The exception of a raising callback escapes _set_status and ends the thread.
set_status_invoke_uncaught(t, reenters) ==
  /\ pc[t] = "set_cb"
  /\ reenters => status_lock = Free
  /\ pending' = pending - 1
  /\ IF cb[t] = "raising"
       THEN /\ pc' = [pc EXCEPT ![t] = "crashed_cb"]
            /\ UNCHANGED <<arg, ret, cb>>
       ELSE Return(t)
  /\ UNCHANGED <<shared, unlocked,
                 readerLocals, waiterLocals, mainLocals>>
  /\ UNCHANGED importer
  /\ UNCHANGED menu

\* launch_server.py:95-98: the callback invocation `cb(status)`, outside the
\* lock.  A callback may re-enter the supervisor (`reenters`): it then takes
\* _status_lock, as set_status_callback and wait_until_ready do, and so
\* waits until the lock is free.  Callback "ok" returns (the menu's
\* _on_status_change), callback "raising" raises and control goes to the
\* except block.
set_status_invoke(t, reenters) ==
  /\ pc[t] = "set_cb"
  /\ reenters => status_lock = Free
  /\ pending' = pending - 1
  /\ IF cb[t] = "raising"
       THEN /\ pc' = [pc EXCEPT ![t] = "set_except"]
            /\ UNCHANGED <<arg, ret, cb>>
       ELSE Return(t)
  /\ UNCHANGED <<shared, unlocked,
                 readerLocals, waiterLocals, mainLocals>>
  /\ UNCHANGED importer
  /\ UNCHANGED menu

\* launch_server.py:98-100: the except block prints "Status callback error"
\* and _set_status returns normally.
set_status_except(t) ==
  /\ pc[t] = "set_except"
  /\ Return(t)
  /\ UNCHANGED <<shared, unlocked, cbGhosts,
                 readerLocals, waiterLocals, mainLocals>>
  /\ UNCHANGED importer
  /\ UNCHANGED menu

\* launch_server.py:79-85: a client registers callback k (the whole locked
\* block; it touches nothing but _status_cb).
set_status_callback(k) ==
  /\ status_lock = Free
  /\ status_cb # k
  /\ status_cb' = k
  /\ UNCHANGED <<spawnLimit, process, alive, last_status, status_lock, pc, arg, ret, cb,
                 unlocked, cbGhosts,
                 readerLocals, waiterLocals, mainLocals>>
  /\ UNCHANGED importer
  /\ UNCHANGED menu

\* ---- launch_comfyui_server ---------------------------------------------
\* The UI thread enters launch_comfyui_server.
launch_call ==
  /\ pc[Main] = "idle"
  /\ Goto(Main, "l_check")
  /\ stopSince' = FALSE
  /\ spawnedAtCall' = lastChild
  /\ path' = "none"
  /\ UNCHANGED <<shared, cb, proc, unlocked, cbGhosts, readerLocals, waiterLocals>>
  /\ UNCHANGED importer
  /\ UNCHANGED menu

\* launch_server.py:183-186: `if _process and _process.poll() is None`.
launch_check ==
  /\ pc[Main] = "l_check"
  /\ unlocked' = Access(Main, "process")
  /\ IF process # NoProc /\ Live(process)
       THEN /\ path' = "already"
            /\ Call(Main, "already_running", "l_ret")
       ELSE /\ Goto(Main, "l_build")
            /\ UNCHANGED path
  /\ UNCHANGED <<shared, cb, proc, spawnedAtCall, stopSince,
                 cbGhosts, readerLocals, waiterLocals>>
  /\ UNCHANGED importer
  /\ UNCHANGED menu

\* launch_server.py:188-197: _build_command raises when neither main.py nor
\* server.py exists (lines 127-132); otherwise status becomes "launching".
launch_build ==
  /\ pc[Main] = "l_build"
  /\ \E found \in BOOLEAN :
       IF found
         THEN /\ Call(Main, "launching", "l_spawn")
              /\ UNCHANGED path
         ELSE /\ path' = "build_failed"
              /\ Call(Main, "error", "l_ret")
  /\ UNCHANGED <<shared, cb, proc, spawnedAtCall, stopSince, unlocked,
                 cbGhosts, readerLocals, waiterLocals>>
  /\ UNCHANGED importer
  /\ UNCHANGED menu

\* launch_server.py:205-224: subprocess.Popen either raises (the handle keeps
\* its old value) or returns a new live child, stored in _process.
launch_spawn ==
  /\ pc[Main] = "l_spawn"
  /\ \E started \in BOOLEAN :
       IF started /\ lastChild < spawnLimit
         THEN /\ process' = lastChild + 1
              /\ alive' = [alive EXCEPT ![lastChild + 1] = "alive"]
              /\ unlocked' = Access(Main, "process")
              /\ Goto(Main, "l_thread")
              /\ UNCHANGED path
         ELSE /\ path' = "spawn_failed"
              /\ Call(Main, "error", "l_ret")
              /\ UNCHANGED <<process, alive, unlocked>>
  /\ UNCHANGED <<spawnLimit, last_status, status_cb, status_lock, cb, proc,
                 spawnedAtCall, stopSince, cbGhosts,
                 readerLocals, waiterLocals>>
  /\ UNCHANGED importer
  /\ UNCHANGED menu

\* launch_server.py:227-229: the reader thread of the new child is started.
launch_thread ==
  /\ pc[Main] = "l_thread"
  /\ pc' = [pc EXCEPT ![Main] = "l_grace", ![process] = "r_read"]
  /\ unlocked' = Access(Main, "process")
  /\ UNCHANGED <<shared, arg, ret, cb, cbGhosts,
                 readerLocals, waiterLocals, mainLocals>>
  /\ UNCHANGED importer
  /\ UNCHANGED menu

\* An early-exit check that reports the error but keeps the dead handle.
launch_grace_keep ==
  /\ pc[Main] = "l_grace"
  /\ unlocked' = Access(Main, "process")
  /\ IF ~Live(process)
       THEN /\ path' = "early_exit"
            /\ Call(Main, "error", "l_ret")
       ELSE /\ path' = "started"
            /\ Goto(Main, "l_ret")
  /\ UNCHANGED <<shared, cb, proc, spawnedAtCall, stopSince,
                 cbGhosts, readerLocals, waiterLocals>>
  /\ UNCHANGED importer
  /\ UNCHANGED menu

\* launch_server.py:231-239: after the grace sleep, a child that has exited
\* clears the handle and sets "error"; otherwise launch returns.
launch_grace ==
  /\ pc[Main] = "l_grace"
  /\ unlocked' = Access(Main, "process")
  /\ IF ~Live(process)
       THEN /\ process' = NoProc
            /\ path' = "early_exit"
            /\ Call(Main, "error", "l_ret")
       ELSE /\ path' = "started"
            /\ Goto(Main, "l_ret")
            /\ UNCHANGED process
  /\ UNCHANGED <<spawnLimit, alive, last_status, status_cb, status_lock, cb, proc,
                 spawnedAtCall, stopSince, cbGhosts,
                 readerLocals, waiterLocals>>
  /\ UNCHANGED importer
  /\ UNCHANGED menu

\* launch_comfyui_server returns to the UI thread.
launch_return ==
  /\ pc[Main] = "l_ret"
  /\ Goto(Main, "idle")
  /\ path' = "none"
  /\ UNCHANGED <<shared, cb, proc, spawnedAtCall, stopSince, unlocked,
                 cbGhosts, readerLocals, waiterLocals>>
  /\ UNCHANGED importer
  /\ UNCHANGED menu

\* ---- stop_comfyui_server -----------------------------------------------
\* launch_server.py:246-247: the UI thread enters stop and copies the handle.
stop_call ==
  /\ pc[Main] = "idle"
  /\ Goto(Main, "s_check")
  /\ proc' = process
  /\ unlocked' = Access(Main, "process")
  /\ stopSince' = TRUE
  /\ path' = "none"
  /\ UNCHANGED <<shared, cb, spawnedAtCall, cbGhosts,
                 readerLocals, waiterLocals>>
  /\ UNCHANGED importer
  /\ UNCHANGED menu

\* launch_server.py:248-251: no process, or one that has already exited.
stop_check ==
  /\ pc[Main] = "s_check"
  /\ IF proc = NoProc \/ ~Live(proc)
       THEN /\ process' = NoProc
            /\ unlocked' = Access(Main, "process")
            /\ path' = IF proc = NoProc THEN "no_process" ELSE "already_exited"
            /\ Call(Main, "stopped", "s_ret")
       ELSE /\ Goto(Main, "s_term")
            /\ UNCHANGED <<spawnLimit, process, unlocked, path>>
  /\ UNCHANGED <<spawnLimit, alive, last_status, status_cb, status_lock, cb, proc,
                 spawnedAtCall, stopSince, cbGhosts,
                 readerLocals, waiterLocals>>
  /\ UNCHANGED importer
  /\ UNCHANGED menu

\* launch_server.py:252-259: proc.terminate() either raises (control goes to
\* the except and finally blocks) or asks the child to exit; the poll loop
\* then runs until the child has exited or `timeout` has elapsed.
stop_terminate ==
  /\ pc[Main] = "s_term"
  /\ \E raised \in BOOLEAN :
       IF raised
         THEN /\ path' = "terminate_raised"
              /\ Goto(Main, "s_finally")
         ELSE /\ Goto(Main, "s_kill")
              /\ UNCHANGED path
  /\ UNCHANGED <<shared, cb, proc, spawnedAtCall, stopSince, unlocked,
                 cbGhosts, readerLocals, waiterLocals>>
  /\ UNCHANGED importer
  /\ UNCHANGED menu

\* launch_server.py:260-264: a child that is still alive after the poll loop
\* is killed; kill() may raise, and then the child stays alive.
stop_kill ==
  /\ pc[Main] = "s_kill"
  /\ \E raised \in BOOLEAN :
       IF Live(proc)
         THEN IF raised
                THEN /\ path' = "kill_raised"
                     /\ UNCHANGED alive
                ELSE /\ path' = "killed"
                     /\ alive' = [alive EXCEPT ![proc] = "dead"]
         ELSE /\ path' = "graceful"
              /\ UNCHANGED alive
  /\ Goto(Main, "s_finally")
  /\ UNCHANGED <<spawnLimit, process, last_status, status_cb, status_lock, cb, proc,
                 spawnedAtCall, stopSince, unlocked, cbGhosts,
                 readerLocals, waiterLocals>>
  /\ UNCHANGED importer
  /\ UNCHANGED menu

\* A finally block that sets the status but leaves the handle in place.
stop_finally_keep ==
  /\ pc[Main] = "s_finally"
  /\ Call(Main, "stopped", "s_ret")
  /\ UNCHANGED <<shared, cb, unlocked, cbGhosts,
                 readerLocals, waiterLocals, mainLocals>>
  /\ UNCHANGED importer
  /\ UNCHANGED menu

\* launch_server.py:265-267: the finally block.
stop_finally ==
  /\ pc[Main] = "s_finally"
  /\ process' = NoProc
  /\ unlocked' = Access(Main, "process")
  /\ Call(Main, "stopped", "s_ret")
  /\ UNCHANGED <<spawnLimit, alive, last_status, status_cb, status_lock, cb,
                 cbGhosts, readerLocals, waiterLocals, mainLocals>>
  /\ UNCHANGED importer
  /\ UNCHANGED menu

\* stop_comfyui_server returns to the UI thread.
stop_return ==
  /\ pc[Main] = "s_ret"
  /\ Goto(Main, "idle")
  /\ path' = "none"
  /\ proc' = NoProc
  /\ UNCHANGED <<shared, cb, spawnedAtCall, stopSince, unlocked,
                 cbGhosts, readerLocals, waiterLocals>>
  /\ UNCHANGED importer
  /\ UNCHANGED menu

\* ---- _reader_loop ------------------------------------------------------
\* A reader that scans every line for the URL, also after the first match.
reader_readline_rescan(p, line) ==
  /\ pc[p] = "r_read"
  /\ line = "eof" => ~Live(p)
  /\ IF line = "url"
       THEN /\ url_reported' = [url_reported EXCEPT ![p] = TRUE]
            /\ nRunning' = [nRunning EXCEPT ![p] = Min(@ + 1, 2)]
            /\ Call(p, "running", "r_read")
       ELSE /\ Goto(p, IF line = "eof" THEN "r_cur" ELSE "r_read")
            /\ UNCHANGED <<url_reported, nRunning>>
  /\ UNCHANGED <<shared, cb, current, unlocked, cbGhosts,
                 waiterLocals, mainLocals>>
  /\ UNCHANGED importer
  /\ UNCHANGED menu

\* launch_server.py:152-166: one readline.  `line` is what it returns: a line
\* that matches URL_WITH_PORT_REGEX ("url") or the empty string at end of
\* file ("eof": the child has exited, pipe.close() follows).  A line without a
\* URL is only printed and changes nothing, so it is not a step.  A matching
\* line sets "running" the first time; later it is only printed.
reader_readline(p, line) ==
  /\ pc[p] = "r_read"
  /\ line = "eof" => ~Live(p)
  /\ IF line = "url" /\ ~url_reported[p]
       THEN /\ url_reported' = [url_reported EXCEPT ![p] = TRUE]
            /\ nRunning' = [nRunning EXCEPT ![p] = Min(@ + 1, 2)]
            /\ Call(p, "running", "r_read")
       ELSE /\ Goto(p, IF line = "eof" THEN "r_cur" ELSE "r_read")
            /\ UNCHANGED <<url_reported, nRunning>>
  /\ UNCHANGED <<shared, cb, current, unlocked, cbGhosts,
                 waiterLocals, mainLocals>>
  /\ UNCHANGED importer
  /\ UNCHANGED menu

\* launch_server.py:168-169: `current = _last_status` under the lock.
reader_current(p) ==
  /\ pc[p] = "r_cur"
  /\ status_lock = Free
  /\ status_lock' = p
  /\ current' = [current EXCEPT ![p] = last_status]
  /\ Goto(p, "r_cur_unlock")
  /\ UNCHANGED <<spawnLimit, process, alive, last_status, status_cb, cb, url_reported,
                 nRunning, unlocked, cbGhosts,
                 waiterLocals, mainLocals>>
  /\ UNCHANGED importer
  /\ UNCHANGED menu

\* launch_server.py:169-171: leaving the `with` block, then "stopped" unless
\* `current` is error/already_running; the thread ends.
reader_exit(p) ==
  /\ pc[p] = "r_cur_unlock"
  /\ status_lock' = Free
  /\ current' = [current EXCEPT ![p] = "idle"]
  /\ IF current[p] \notin {"error", "already_running"}
       THEN Call(p, "stopped", "done")
       ELSE Goto(p, "done")
  /\ UNCHANGED <<spawnLimit, process, alive, last_status, status_cb, cb, url_reported,
                 nRunning, unlocked, cbGhosts,
                 waiterLocals, mainLocals>>
  /\ UNCHANGED importer
  /\ UNCHANGED menu

\* ---- wait_until_ready --------------------------------------------------
WaiterOut == {"idle", "w_done", "crashed_attr", "crashed_unbound"}

\* launch_server.py:107-109: a thread enters wait_until_ready.  With timeout 0
\* the loop body never runs; with a positive timeout the first test passes.
wait_call ==
  /\ pc[Waiter] \in WaiterOut
  /\ status' = "unbound"
  /\ result' = "none"
  /\ sawExit' = FALSE
  /\ \E timeout \in {0, 1} :
       Goto(Waiter, IF timeout = 0 THEN "w_timeout" ELSE "w_read")
  /\ UNCHANGED <<shared, cb, unlocked, cbGhosts,
                 readerLocals, mainLocals>>
  /\ UNCHANGED importer
  /\ UNCHANGED menu

\* launch_server.py:110-111: `status = _last_status` under the lock.
wait_read ==
  /\ pc[Waiter] = "w_read"
  /\ status_lock = Free
  /\ status_lock' = Waiter
  /\ status' = last_status
  /\ sawExit' = (ExitedNoUrl /\ Quiescent)
  /\ Goto(Waiter, "w_read_unlock")
  /\ UNCHANGED <<spawnLimit, process, alive, last_status, status_cb, cb, result,
                 unlocked, cbGhosts, readerLocals, mainLocals>>
  /\ UNCHANGED importer
  /\ UNCHANGED menu

\* launch_server.py:111-113: leaving the `with` block; a terminal status is
\* returned at once.
wait_terminal ==
  /\ pc[Waiter] = "w_read_unlock"
  /\ status_lock' = Free
  /\ IF status \in terminal
       THEN /\ result' = status
            /\ status' = "unbound"
            /\ sawExit' = FALSE
            /\ Goto(Waiter, "w_done")
       ELSE /\ Goto(Waiter, "w_proc")
            /\ UNCHANGED <<result, status, sawExit>>
  /\ UNCHANGED <<spawnLimit, process, alive, last_status, status_cb, cb,
                 unlocked, cbGhosts, readerLocals, mainLocals>>
  /\ UNCHANGED importer
  /\ UNCHANGED menu

\* launch_server.py:115: the first operand of `_process and ...`.
wait_process ==
  /\ pc[Waiter] = "w_proc"
  /\ unlocked' = Access(Waiter, "process")
  /\ Goto(Waiter, IF process = NoProc THEN "w_wait" ELSE "w_poll")
  /\ UNCHANGED <<shared, cb, cbGhosts,
                 readerLocals, waiterLocals, mainLocals>>
  /\ UNCHANGED importer
  /\ UNCHANGED menu

\* launch_server.py:115-116: the second operand loads _process again and
\* calls poll() on it: AttributeError if the handle was cleared in between.
wait_poll ==
  /\ pc[Waiter] = "w_poll"
  /\ unlocked' = Access(Waiter, "process")
  /\ IF process = NoProc
       THEN /\ Goto(Waiter, "crashed_attr")
            /\ status' = "unbound"
            /\ sawExit' = FALSE
       ELSE /\ IF ~Live(process)
                 THEN Call(Waiter, "error", "w_ret_error")
                 ELSE Goto(Waiter, "w_wait")
            /\ UNCHANGED <<status, sawExit>>
  /\ UNCHANGED <<shared, cb, result, cbGhosts,
                 readerLocals, mainLocals>>
  /\ UNCHANGED importer
  /\ UNCHANGED menu

\* launch_server.py:117: return "error".
wait_return_error ==
  /\ pc[Waiter] = "w_ret_error"
  /\ result' = "error"
  /\ status' = "unbound"
  /\ sawExit' = FALSE
  /\ Goto(Waiter, "w_done")
  /\ UNCHANGED <<shared, cb, unlocked, cbGhosts,
                 readerLocals, mainLocals>>
  /\ UNCHANGED importer
  /\ UNCHANGED menu

\* launch_server.py:118, 109: the event wait ends (signal or 0.2 s), then the
\* loop test: another iteration, or the timeout has elapsed.
wait_event ==
  /\ pc[Waiter] = "w_wait"
  /\ \E elapsed \in BOOLEAN :
       Goto(Waiter, IF elapsed THEN "w_timeout" ELSE "w_read")
  /\ sawExit' = FALSE
  /\ UNCHANGED <<shared, cb, status, result, unlocked, cbGhosts,
                 readerLocals, mainLocals>>
  /\ UNCHANGED importer
  /\ UNCHANGED menu

\* launch_server.py:119: `return status` (UnboundLocalError if the loop body
\* never ran).
wait_timeout ==
  /\ pc[Waiter] = "w_timeout"
  /\ IF status = "unbound"
       THEN /\ Goto(Waiter, "crashed_unbound")
            /\ UNCHANGED result
       ELSE /\ result' = status
            /\ Goto(Waiter, "w_done")
  /\ status' = "unbound"
  /\ UNCHANGED <<shared, cb, sawExit, unlocked, cbGhosts,
                 readerLocals, mainLocals>>
  /\ UNCHANGED importer
  /\ UNCHANGED menu

\* ---- environment -------------------------------------------------------
\* A child exits (by itself, or because it was asked to terminate).
child_exit(p) ==
  /\ Live(p)
  /\ alive' = [alive EXCEPT ![p] = "dead"]
  /\ UNCHANGED <<spawnLimit, process, last_status, status_cb, status_lock, pc, arg, ret, cb,
                 unlocked, cbGhosts,
                 readerLocals, waiterLocals, mainLocals>>
  /\ UNCHANGED importer
  /\ UNCHANGED menu

\* ---- specifications ----------------------------------------------------
Lines == {"url", "eof"}

\* The supervisor alone: launch, stop, the readers and the children.
NextSup ==
  \/ \E t \in Threads : set_status_store(t)
  \/ \E t \in Threads : set_status_release(t)
  \/ launch_call
  \/ launch_check
  \/ launch_build
  \/ launch_spawn
  \/ launch_thread
  \/ launch_grace
  \/ launch_return
  \/ stop_call
  \/ stop_check
  \/ stop_terminate
  \/ stop_kill
  \/ stop_finally
  \/ stop_return
  \/ \E p \in Procs, line \in Lines : reader_readline(p, line)
  \/ \E p \in Procs : reader_current(p)
  \/ \E p \in Procs : reader_exit(p)
  \/ \E p \in Procs : child_exit(p)

\* wait_until_ready.
NextWait ==
  \/ wait_call
  \/ wait_read
  \/ wait_terminal
  \/ wait_process
  \/ wait_poll
  \/ wait_return_error
  \/ wait_event
  \/ wait_timeout

\* Registration and invocation of the status callback.
NextCb ==
  \/ \E k \in Callbacks : set_status_callback(k)
  \/ \E t \in Threads, reenters \in BOOLEAN : set_status_invoke(t, reenters)
  \/ \E t \in Threads : set_status_except(t)

Next == NextSup \/ NextWait

Spec == Init /\ [][Next]_vars

SpecSup == Init /\ [][NextSup]_vars

\* The supervisor with status callbacks, spawning at most MaxCbProcs children.
InitCb == InitWith(MaxCbProcs)

SpecCb == InitCb /\ [][NextSup \/ NextCb]_vars

TypeOK ==
  /\ process \in {NoProc} \cup Procs
  /\ last_status \in Statuses
  /\ status_cb \in Callbacks
  /\ status_lock \in Threads \cup {Free}
  /\ pending \in 0..(MaxProcs + 2)

\* ---- import_comfyui_workflow ---------------------------------------------
docVars == <<scope, file, imports, nodes, links>>
createLocals == <<ni, created, name, idx, nn>>
linkLocals == <<li, link, src, dst, slot, max_inputs, dstInputs, connected,
                setInputCalls, skipped>>
undoVars == <<undoOpen, undoClosed>>

Max(a, b) == IF a >= b THEN a ELSE b

ImportLimit == IF scope = "nodes" THEN MaxImports ELSE 1

\* The import is at `return` or has ended in an exception.
ImportOut == {"idle", "raised"}

\* comfy_to_nuke.py:201-219: the user picks the file (the same one at every
\* import), it is tested with isfile and read with json.load.
import_open ==
  /\ ipc \in ImportOut
  /\ scope # "off"
  /\ imports < ImportLimit
  /\ \E d \in Docs(scope) :
       /\ file = NoFile \/ d = file
       /\ file' = d
       /\ ipc' = IF d.kind \in {"cancel", "missing", "badjson"} THEN "idle" ELSE "parse"
       /\ message' = IF d.kind \in {"missing", "badjson"}
                       THEN [NoMessage EXCEPT !.kind = d.kind]
                       ELSE NoMessage
  /\ imports' = imports + 1
  /\ nodes' = <<>>
  /\ links' = "list"
  /\ ni' = 0
  /\ created' = [i \in Ids |-> 0]
  /\ name' = NoName
  /\ idx' = 0
  /\ nn' = 0
  /\ raising' = FALSE
  /\ undoOpen' = 0
  /\ undoClosed' = 0
  /\ li' = 0
  /\ link' = NoLink
  /\ src' = 0
  /\ dst' = 0
  /\ slot' = 0
  /\ max_inputs' = 0
  /\ dstInputs' = 0
  /\ connected' = 0
  /\ setInputCalls' = 0
  /\ skipped' = 0
  /\ failed' = {}
  /\ UNCHANGED <<scope, dag, faults, supervisor>>

\* comfy_to_nuke.py:125-131: `data.get("nodes") or []`, and the list under
\* "graph" when that is empty.
from_json(data) ==
  LET top == IF data.wrapped THEN <<>> ELSE data.nodes
  IN  IF top = <<>> /\ data.wrapped THEN data.nodes ELSE top

\* comfy_to_nuke.py:221-224 with ComfyUIWorkflow.from_json (125-132):
\* `data.get` raises AttributeError when data is not a dict; the node list is
\* taken from the top level or, when that is empty, from under "graph".
import_parse ==
  /\ ipc = "parse"
  /\ IF file.kind = "notobject"
       THEN /\ raising' = TRUE
            /\ ipc' = "raised"
            /\ UNCHANGED <<nodes, links, message>>
       ELSE /\ nodes' = from_json(file)
            /\ links' = file.links
            /\ IF from_json(file) = <<>>
                 THEN /\ message' = [NoMessage EXCEPT !.kind = "nonodes"]
                      /\ ipc' = "idle"
                 ELSE /\ ipc' = "positions"
                      /\ UNCHANGED message
            /\ UNCHANGED raising
  /\ UNCHANGED <<scope, file, imports, createLocals, linkLocals, undoVars, dag,
                 failed, faults, supervisor>>

\* comfy_to_nuke.py:226-228 with _compute_positions (135-145): `n.get("id")`
\* on every entry, AttributeError for an entry that is not a dict.
import_positions ==
  /\ ipc = "positions"
  /\ IF \E i \in DOMAIN nodes : nodes[i].kind # "dict"
       THEN /\ raising' = TRUE
            /\ ipc' = "raised"
       ELSE /\ ipc' = "begin"
            /\ UNCHANGED raising
  /\ UNCHANGED <<docVars, createLocals, linkLocals, undoVars, dag, message,
                 failed, faults, supervisor>>

\* comfy_to_nuke.py:230: nuke.beginUndo; the creation loop starts.
import_beginUndo ==
  /\ ipc = "begin"
  /\ undoOpen' = undoOpen + 1
  /\ ni' = 1
  /\ ipc' = "n_next"
  /\ UNCHANGED <<docVars, created, name, idx, nn, linkLocals, undoClosed, dag,
                 raising, message, failed, faults, supervisor>>

\* comfy_to_nuke.py:233-237, 256: the head of `for n in wf.nodes`; an entry
\* whose id is not an int is passed over; after the last entry the connect
\* phase begins.
import_next_node ==
  /\ ipc = "n_next"
  /\ IF ni > Len(nodes)
       THEN /\ ipc' = "k_next"
            /\ UNCHANGED ni
       ELSE IF nodes[ni].id = NoId
              THEN /\ ni' = ni + 1
                   /\ UNCHANGED ipc
              ELSE /\ ipc' = "c_name"
                   /\ UNCHANGED ni
  /\ UNCHANGED <<docVars, created, name, idx, nn, linkLocals, undoVars, dag,
                 raising, message, failed, faults, supervisor>>

\* comfy_to_nuke.py:67-69 and 37-38: ctype, and the first candidate name.
create_name ==
  /\ ipc = "c_name"
  /\ name' = [base |-> ctype(nodes[ni]), idx |-> 1]
  /\ idx' = 1
  /\ ipc' = "sn_loop"
  /\ UNCHANGED <<docVars, ni, created, nn, linkLocals, undoVars, dag, raising,
                 message, failed, faults, supervisor>>

\* _safe_name without its loop: the base name is returned as it is.
safe_name_base ==
  /\ ipc = "sn_loop"
  /\ ipc' = "c_create"
  /\ UNCHANGED <<docVars, createLocals, linkLocals, undoVars, dag, raising,
                 message, failed, faults, supervisor>>

\* comfy_to_nuke.py:39-42 (_safe_name): one test of `while nuke.exists(name)`
\* and, if the name exists, one run of the loop body.
safe_name_loop ==
  /\ ipc = "sn_loop"
  /\ IF Exists(name)
       THEN /\ idx' = idx + 1
            /\ name' = [name EXCEPT !.idx = idx + 1]
            /\ UNCHANGED ipc
       ELSE /\ ipc' = "c_create"
            /\ UNCHANGED <<idx, name>>
  /\ UNCHANGED <<docVars, ni, created, nn, linkLocals, undoVars, dag, raising,
                 message, failed, faults, supervisor>>

\* A host node as nuke.createNode returns it: under a name of the host's.
NewNode(cls) ==
  [cls |-> cls, name |-> HostName(Len(dag) + 1), label |-> None,
   pass |-> imports, entry |-> ni]

\* n.setName(name): the host makes the name unique if it is taken.
Renamed == IF Exists(name) THEN dag ELSE [dag EXCEPT ![nn].name = name]

\* A host call of the try block raised: on to the except block (line 104).
ToFallback ==
  /\ faults' = faults + 1
  /\ failed' = failed \cup {ni}
  /\ ipc' = "x_create"

\* A host call of the except block raised: the exception leaves
\* _create_nuke_node_for_comfy and the loop, on to `finally` (line 258).
ToFinally ==
  /\ faults' = faults + 1
  /\ failed' = failed \cup {ni}
  /\ raising' = TRUE
  /\ ipc' = "finally"

\* comfy_to_nuke.py:77, 86, 100: nuke.createNode of the mapped class.
create_node ==
  /\ ipc = "c_create"
  /\ \E ok \in Outcomes :
       IF ok
         THEN /\ dag' = Append(dag, NewNode(NODE_TYPE_MAP(ctype(nodes[ni]))))
              /\ nn' = Len(dag) + 1
              /\ ipc' = "c_setName"
              /\ UNCHANGED <<failed, faults>>
         ELSE /\ ToFallback
              /\ UNCHANGED <<dag, nn>>
  /\ UNCHANGED <<docVars, ni, created, name, idx, linkLocals, undoVars, raising,
                 message, supervisor>>

\* comfy_to_nuke.py:78, 87, 101: n.setName(name).
create_setName ==
  /\ ipc = "c_setName"
  /\ \E ok \in Outcomes :
       IF ok
         THEN /\ dag' = Renamed
              /\ ipc' = "c_knobs"
              /\ UNCHANGED <<failed, faults>>
         ELSE /\ ToFallback
              /\ UNCHANGED dag
  /\ UNCHANGED <<docVars, createLocals, linkLocals, undoVars, raising, message,
                 supervisor>>

\* comfy_to_nuke.py:79-84, 88-98, 102-103: the knobs (file, colorspace,
\* label) are set and the node is returned.
create_knobs ==
  /\ ipc = "c_knobs"
  /\ \E ok \in Outcomes :
       IF ok
         THEN /\ dag' = [dag EXCEPT ![nn].label = ctype(nodes[ni])]
              /\ ipc' = "store"
              /\ UNCHANGED <<failed, faults>>
         ELSE /\ ToFallback
              /\ UNCHANGED dag
  /\ UNCHANGED <<docVars, createLocals, linkLocals, undoVars, raising, message,
                 supervisor>>

\* comfy_to_nuke.py:104-106: the except block creates a NoOp.
fallback_node ==
  /\ ipc = "x_create"
  /\ \E ok \in Outcomes :
       IF ok
         THEN /\ dag' = Append(dag, NewNode("NoOp"))
              /\ nn' = Len(dag) + 1
              /\ ipc' = "x_setName"
              /\ UNCHANGED <<failed, faults, raising>>
         ELSE /\ ToFinally
              /\ UNCHANGED <<dag, nn>>
  /\ UNCHANGED <<docVars, ni, created, name, idx, linkLocals, undoVars,
                 message, supervisor>>

\* comfy_to_nuke.py:107: n.setName(name) in the except block.
fallback_setName ==
  /\ ipc = "x_setName"
  /\ \E ok \in Outcomes :
       IF ok
         THEN /\ dag' = Renamed
              /\ ipc' = "x_knobs"
              /\ UNCHANGED <<failed, faults, raising>>
         ELSE /\ ToFinally
              /\ UNCHANGED dag
  /\ UNCHANGED <<docVars, createLocals, linkLocals, undoVars, message,
                 supervisor>>

\* comfy_to_nuke.py:108-109: the label is set and the NoOp is returned.
fallback_knobs ==
  /\ ipc = "x_knobs"
  /\ \E ok \in Outcomes :
       IF ok
         THEN /\ dag' = [dag EXCEPT ![nn].label = ctype(nodes[ni])]
              /\ ipc' = "store"
              /\ UNCHANGED <<failed, faults, raising>>
         ELSE /\ ToFinally
              /\ UNCHANGED dag
  /\ UNCHANGED <<docVars, createLocals, linkLocals, undoVars, message,
                 supervisor>>

\* comfy_to_nuke.py:238-253: position and tags (their failures are swallowed),
\* then `created[nid] = nn`; on to the next entry.
import_store ==
  /\ ipc = "store"
  /\ created' = [created EXCEPT ![nodes[ni].id] = nn]
  /\ ni' = ni + 1
  /\ nn' = 0
  /\ name' = NoName
  /\ idx' = 0
  /\ ipc' = "n_next"
  /\ UNCHANGED <<docVars, linkLocals, undoVars, dag, raising, message, failed,
                 faults, supervisor>>

\* ---- _connect_nodes ------------------------------------------------------
\* comfy_to_nuke.py:150, 192, 256: the head of `for link in links`.  A value
\* that cannot be iterated raises TypeError here, outside the per-link try;
\* after the last entry the count is returned.  (NoLink: the list is exhausted.)
connect_next ==
  /\ ipc = "k_next"
  /\ IF links = "notlist"
       THEN /\ raising' = TRUE
            /\ ipc' = "finally"
            /\ UNCHANGED <<li, link>>
       ELSE /\ \E l \in (IF li < MaxLinks THEN LinkEntries(scope) ELSE {}) \cup {NoLink} :
                 /\ link' = l
                 /\ li' = IF l = NoLink THEN li ELSE li + 1
                 /\ ipc' = IF l = NoLink THEN "finally" ELSE "k_resolve"
            /\ UNCHANGED raising
  /\ UNCHANGED <<docVars, createLocals, src, dst, slot, max_inputs, dstInputs,
                 connected, setInputCalls, skipped, undoVars, dag, message,
                 failed, faults, supervisor>>

\* The entry is unpacked and both ids are ints (lines 153-165).
WellFormed(l) ==
  /\ l.form \in {"list", "dict"}
  /\ l.src # NoId
  /\ l.dst # NoId

\* Both endpoints were created in this import (lines 167-170).
Resolves(l) ==
  /\ WellFormed(l)
  /\ created[l.src] # 0
  /\ created[l.dst] # 0

\* The link is dropped (`continue`, or the except of line 189).
SkipLink ==
  /\ skipped' = skipped + 1
  /\ link' = NoLink
  /\ ipc' = "k_next"
  /\ UNCHANGED <<src, dst, slot, max_inputs, dstInputs>>

\* comfy_to_nuke.py:177-179: the slot for requested value ds.
ClampedSlot(ds, mx) ==
  LET s == IF IsNumber(ds) THEN IntOf(ds) ELSE 0
  IN  IF s < 0 \/ s >= mx THEN 0 ELSE s

\* _connect_nodes without the per-link try and `continue`: a link that cannot
\* be resolved ends the loop with an exception.
connect_resolve_abort ==
  /\ ipc = "k_resolve"
  /\ IF ~Resolves(link) \/ IntRaises(DstSlot(link))
       THEN /\ raising' = TRUE
            /\ ipc' = "finally"
            /\ UNCHANGED <<link, src, dst, slot, max_inputs, dstInputs, skipped>>
       ELSE /\ \E mi \in -1..MaxInputs :
                 /\ src' = created[link.src]
                 /\ dst' = created[link.dst]
                 /\ dstInputs' = mi
                 /\ max_inputs' = IF mi = -1 THEN 1 ELSE Max(1, mi)
                 /\ slot' = ClampedSlot(DstSlot(link), max_inputs')
                 /\ ipc' = "k_set"
                 /\ UNCHANGED <<link, skipped>>
            /\ UNCHANGED raising
  /\ UNCHANGED <<docVars, createLocals, li, connected, setInputCalls, undoVars,
                 dag, message, failed, faults, supervisor>>

\* comfy_to_nuke.py:151-179: the entry is unpacked, the endpoints are looked
\* up, dst.maxInputs() is asked (answer -1: it raised) and the slot computed.
connect_resolve ==
  /\ ipc = "k_resolve"
  /\ IF ~Resolves(link)
       THEN SkipLink
       ELSE \E mi \in -1..MaxInputs :
              IF IsNumber(DstSlot(link)) /\ IntRaises(DstSlot(link))
                THEN SkipLink
                ELSE /\ src' = created[link.src]
                     /\ dst' = created[link.dst]
                     /\ dstInputs' = mi
                     /\ max_inputs' = IF mi = -1 THEN 1 ELSE Max(1, mi)
                     /\ slot' = ClampedSlot(DstSlot(link), max_inputs')
                     /\ ipc' = "k_set"
                     /\ UNCHANGED <<link, skipped>>
  /\ UNCHANGED <<docVars, createLocals, li, connected, setInputCalls, undoVars,
                 dag, raising, message, failed, faults, supervisor>>

\* comfy_to_nuke.py:182-188: `if max_inputs > 0: dst.setInput(slot, src)`;
\* the link is counted unless setInput raises.
connect_setInput ==
  /\ ipc = "k_set"
  /\ IF max_inputs > 0
       THEN \E ok \in Outcomes :
              /\ setInputCalls' = setInputCalls + 1
              /\ connected' = IF ok THEN connected + 1 ELSE connected
              /\ faults' = IF ok THEN faults ELSE faults + 1
       ELSE UNCHANGED <<setInputCalls, connected, faults>>
  /\ link' = NoLink
  /\ src' = 0
  /\ dst' = 0
  /\ slot' = 0
  /\ max_inputs' = 0
  /\ dstInputs' = 0
  /\ ipc' = "k_next"
  /\ UNCHANGED <<docVars, createLocals, li, skipped, undoVars, dag, raising,
                 message, failed, supervisor>>

\* nuke.endUndo() as the last statement of the try block instead of in
\* `finally`: it is not reached when an exception is propagating.
import_endUndo_try ==
  /\ ipc = "finally"
  /\ undoClosed' = IF raising THEN undoClosed ELSE undoClosed + 1
  /\ ipc' = IF raising THEN "raised" ELSE "message"
  /\ UNCHANGED <<docVars, createLocals, linkLocals, undoOpen, dag, raising,
                 message, failed, faults, supervisor>>

\* comfy_to_nuke.py:258-259: `finally: nuke.endUndo()`, then the exception, if
\* any, goes on to the caller.
import_endUndo ==
  /\ ipc = "finally"
  /\ undoClosed' = undoClosed + 1
  /\ ipc' = IF raising THEN "raised" ELSE "message"
  /\ UNCHANGED <<docVars, createLocals, linkLocals, undoOpen, dag, raising,
                 message, failed, faults, supervisor>>

\* comfy_to_nuke.py:261: the summary, with len(created) as the node count.
import_message ==
  /\ ipc = "message"
  /\ message' = [kind |-> "summary",
                 nodes |-> Cardinality({i \in Ids : created[i] # 0}),
                 links |-> connected]
  /\ ipc' = "idle"
  /\ UNCHANGED <<docVars, createLocals, linkLocals, undoVars, dag, raising,
                 failed, faults, supervisor>>

NextImport ==
  \/ import_open
  \/ import_parse
  \/ import_positions
  \/ import_beginUndo
  \/ import_next_node
  \/ create_name
  \/ safe_name_loop
  \/ create_node
  \/ create_setName
  \/ create_knobs
  \/ fallback_node
  \/ fallback_setName
  \/ fallback_knobs
  \/ import_store
  \/ connect_next
  \/ connect_resolve
  \/ connect_setInput
  \/ import_endUndo
  \/ import_message

\* Imports of every kind of document, with few kinds of links.
InitImport == SupervisorInit(MaxProcs) /\ ImporterInit("nodes")

SpecImport == InitImport /\ [][NextImport]_vars

\* Imports of well-formed node lists, with every kind of link.
InitConnect == SupervisorInit(MaxProcs) /\ ImporterInit("links")

SpecConnect == InitConnect /\ [][NextImport]_vars

\* ---- properties ---------------------------------------------------------
LiveChildren == {p \in Procs : Live(p)}

\* Thread t performs the store of _set_status in this step.
StoreBy(t) == pc[t] = "set_lock" /\ pc'[t] = "set_unlock"

\* C1: a launch call made while the child is alive reports already_running
\* and spawns nothing, so at no time are two children alive.
AtMostOneLiveChild ==
  /\ (path = "already" /\ pc[Main] = "set_unlock") => last_status = "already_running"
  /\ path = "already" => lastChild = spawnedAtCall
  /\ Cardinality(LiveChildren) <= 1

\* C2: every stop call returns, without raising, with the handle cleared and
\* having stored "stopped", whichever branch it took (no process, process
\* already exited, graceful exit, kill, terminate or kill raising).
StopPaths == {"no_process", "already_exited", "graceful", "killed",
              "terminate_raised", "kill_raised"}

StopAlwaysStops ==
  /\ (pc[Main] = "set_unlock" /\ ret[Main] = "s_ret") =>
       /\ last_status = "stopped"
       /\ process = NoProc
  /\ pc[Main] = "s_ret" => (process = NoProc /\ path \in StopPaths)
  /\ pc[Main] \in {"s_finally", "s_ret"} => path \in StopPaths
  /\ pc[Main] # "crashed_cb"

\* C2 witness: stop returns with the handle cleared after terminate() raised
\* and left the child alive.
StopReturnsAfterTerminateRaised ==
  /\ pc[Main] = "s_ret"
  /\ path = "terminate_raised"
  /\ process = NoProc
  /\ Live(proc)

\* C3: within one launch attempt the status never moves backwards in
\* idle -> launching -> {running|already_running|error} -> stopped; only the
\* first store of a new launch call may lower it.
FirstStoreOfLaunch ==
  /\ StoreBy(Main)
  /\ ret[Main] = "l_spawn" \/ path \in {"already", "build_failed"}

StatusNeverMovesBack ==
  [][Rank(last_status') >= Rank(last_status) \/ FirstStoreOfLaunch]_vars

\* C4: once the child has exited without a URL line, an iteration of
\* wait_until_ready that starts afterwards returns "error" instead of going
\* back to wait (no launch or stop call and no reader being active from the
\* start of the iteration to its end).
WaitReturnsErrorAfterExit ==
  ~(pc[Waiter] = "w_wait" /\ sawExit /\ ExitedNoUrl /\ Quiescent)

\* C5: every read and write of the process handle and of the status is made
\* while _status_lock is held.
AllAccessUnderLock == unlocked = {}

\* C6: a reader sets "running" for the first line with a URL and never again.
RunningAtMostOnce ==
  \A p \in Procs :
    /\ nRunning[p] <= 1
    /\ url_reported[p] <=> nRunning[p] = 1
    /\ (pc[p] = "set_lock" /\ arg[p] = "running") => nRunning[p] = 1

\* C6 witness: a reader is back in its loop after the first URL line, the
\* child being alive, so further lines (with or without URL) can follow.
ReaderPastFirstUrl ==
  \E p \in Procs :
    /\ pc[p] = "r_read"
    /\ url_reported[p]
    /\ nRunning[p] = 1
    /\ Live(p)

\* C7: the reader's exit handling never overwrites a status of "error" or
\* "already_running".
ReaderKeepsErrorStatus ==
  [][\A p \in Procs :
       (StoreBy(p) /\ arg[p] = "stopped") =>
         last_status \notin {"error", "already_running"}]_vars

\* C8: a launch whose command cannot be built or whose spawn fails stores
\* "error" and returns having spawned no child and started no reader, the
\* handle not referring to a live child; a child that exited within the
\* grace sleep makes launch clear the handle and store "error".
LaunchFailures == {"build_failed", "spawn_failed", "early_exit"}

LaunchFailureIsError ==
  /\ (pc[Main] = "set_unlock" /\ path \in LaunchFailures) => last_status = "error"
  /\ (pc[Main] \in {"set_lock", "set_unlock", "set_cb", "set_except", "l_ret"}
        /\ path \in {"build_failed", "spawn_failed"}) =>
       /\ lastChild = spawnedAtCall
       /\ \A p \in Procs : pc[p] # "none" => p <= spawnedAtCall
       /\ process = NoProc \/ ~Live(process)
  /\ (pc[Main] \in {"set_lock", "set_unlock", "set_cb", "set_except", "l_ret"}
        /\ path = "early_exit") =>
       /\ process = NoProc
       /\ ~Live(lastChild)
  /\ pc[Main] # "crashed_cb"

\* C8 witness: launch returns after its child exited within the grace sleep.
LaunchReturnsAfterEarlyExit ==
  /\ pc[Main] = "l_ret"
  /\ path = "early_exit"
  /\ lastChild = spawnedAtCall + 1

\* C9: each status stored while a callback is registered is delivered to
\* that callback exactly once, and a raising callback ends no thread.
InFlight == {t \in Threads : pc[t] \in {"set_unlock", "set_cb"} /\ cb[t] # "none"}

CallbackOncePerStore ==
  /\ pending = Cardinality(InFlight)
  /\ \A t \in Threads : pc[t] # "crashed_cb"
  /\ \A t \in Threads : pc[t] = "set_except" => cb[t] = "raising"

\* C9 witness: a callback has raised, the exception is being handled, and the
\* status passed to it is the stored one.
RaisingCallbackCaught ==
  \E t \in Threads :
    /\ pc[t] = "set_except"
    /\ last_status = arg[t]
    /\ pending = 0

\* C10: a thread never invokes the callback while it holds _status_lock, and
\* whoever holds the lock is at the end of its `with` block, so a callback
\* that re-enters the supervisor gets the lock.
LockReleasePoints == {"set_unlock", "r_cur_unlock", "w_read_unlock"}

CallbackOutsideLock ==
  /\ \A t \in Threads : pc[t] \in {"set_cb", "set_except"} => status_lock # t
  /\ status_lock # Free => pc[status_lock] \in LockReleasePoints

\* C10 witness: a thread is about to invoke the callback while another
\* thread holds the lock.
CallbackWhileOtherHoldsLock ==
  \E t \in Threads :
    /\ pc[t] = "set_cb"
    /\ status_lock \notin {t, Free}

\* C11: wait_until_ready never ends without returning a status: for every
\* timeout, 0 included, the call ends at `return` with a status value and never
\* in an exception.
WaitAlwaysReturnsStatus ==
  /\ pc[Waiter] \notin {"crashed_unbound", "crashed_attr"}
  /\ (pc[Waiter] = "w_done" => result \in Statuses)

\* ---- properties of the importer ------------------------------------------
\* The host nodes this import created for entry i of the node list.
NodesOf(i) == {k \in ThisPass : dag[k].entry = i}

\* The entries the creation loop has dealt with.
Handled == {i \in DOMAIN nodes : i < ni}

\* C12: when no host call raised for it, an entry with an integer id has
\* exactly one host node, a Read for type LoadImage, a Write for SaveImage and
\* SaveImageSimple and otherwise a NoOp, labelled with the type name once the
\* knobs are set; an entry without an integer id has no host node.
OneNodePerEntry ==
  \A i \in Handled \ failed :
    IF nodes[i].id = NoId
      THEN NodesOf(i) = {}
      ELSE /\ Cardinality(NodesOf(i)) = 1
           /\ \A k \in NodesOf(i) :
                /\ dag[k].label = ctype(nodes[i])
                /\ dag[k].cls = (IF ctype(nodes[i]) = "LoadImage" THEN "Read"
                                 ELSE IF ctype(nodes[i]) \in {"SaveImage", "SaveImageSimple"}
                                        THEN "Write"
                                 ELSE "NoOp")

\* C12 witness: an import reports its summary after a list of a SaveImageSimple
\* entry with an id and an entry without an integer id, with one node created.
ImportedOneOfTwoEntries ==
  /\ ipc = "message"
  /\ failed = {}
  /\ Len(nodes) >= 2
  /\ nodes[1].id # NoId
  /\ nodes[1].type = "SaveImageSimple"
  /\ nodes[2].id = NoId
  /\ Cardinality(ThisPass) = 1

\* C13: a link whose destination answers maxInputs() = 0 is skipped: setInput
\* is not called for it and the connection count stays as it is.
ZeroInputLinkSkipped ==
  [][(ipc = "k_set" /\ dstInputs = 0)
       => (setInputCalls' = setInputCalls /\ connected' = connected)]_vars

\* A link entry that cannot be connected: it is malformed (not a sequence of
\* five or a dict, an id that is not an int, a slot that int() rejects) or one
\* of its ids is not among the nodes created in this import.
Unusable(l) == ~Resolves(l) \/ (IsNumber(DstSlot(l)) /\ IntRaises(DstSlot(l)))

\* C14: an unusable link is skipped without raising: the loop is back at its
\* head for the next entry, and the host nodes, `created`, the connection
\* count and the setInput calls are as before.
BadLinkSkipped ==
  [][(ipc = "k_resolve" /\ Unusable(link))
       => /\ ipc' = "k_next"
          /\ ~raising'
          /\ dag' = dag
          /\ created' = created
          /\ connected' = connected
          /\ setInputCalls' = setInputCalls]_vars

\* C14 witness: a link is about to be connected after an earlier entry of the
\* same list was skipped.
LinkAfterSkippedLink ==
  /\ ipc = "k_set"
  /\ skipped >= 1
  /\ ~raising

\* C15: an entry for which a host call raised during creation ends with
\* exactly one host node, a NoOp placeholder.
FailedEntryYieldsPlaceholder ==
  \A i \in failed \cap Handled :
    /\ Cardinality(NodesOf(i)) = 1
    /\ \A k \in NodesOf(i) : dag[k].cls = "NoOp"

\* C16: whatever the document, an import never ends in an exception (unless a
\* host call raised), and an import that ends with one of the error messages
\* has created no host node.
ImportNeverRaisesOnDocument ==
  /\ (ipc = "raised" => failed # {})
  /\ (ipc = "idle" /\ message.kind \in {"missing", "badjson", "nonodes"}
        => ThisPass = {})

\* C17: the name _safe_name returns does not exist in the host at that moment;
\* it is the base name, or the base name with a suffix when the base name is
\* taken; the search ends within as many steps as the host has nodes; and no
\* two host nodes have the same name, whatever was imported before.
ChosenNameIsFree ==
  /\ (ipc = "c_create" =>
        /\ ~Exists(name)
        /\ name.base = ctype(nodes[ni])
        /\ (name.idx > 1 => Exists([name EXCEPT !.idx = 1])))
  /\ (ipc = "sn_loop" => idx <= Len(dag) + 1)
  /\ \A i, j \in DOMAIN dag : i # j => dag[i].name # dag[j].name

\* C17 witness: in a second import of the same file a node has been given a
\* suffixed name.
ReimportGivesSuffixedName ==
  /\ imports = 2
  /\ ipc = "store"
  /\ failed = {}
  /\ dag[nn].name = name
  /\ name.idx >= 2

\* C18: when no host call raised during creation, the node count of the
\* summary is the number of host nodes this import created, and the link count
\* is the number of links it connected.
SummaryCountsCreatedNodes ==
  (ipc = "idle" /\ message.kind = "summary" /\ failed = {})
    => /\ message.nodes = Cardinality(ThisPass)
       /\ message.links = connected

\* C19: an import never has more than one undo group and never closes more
\* often than it opened; when it has ended, by return or by exception, every
\* group it opened is closed; and every creation of a host node and every
\* setInput call happens while the group is open.
UndoGroupClosedOnce ==
  /\ [](/\ undoClosed <= undoOpen
        /\ undoOpen <= 1
        /\ (ipc \in ImportOut \cup {"message"} => undoClosed = undoOpen))
  /\ [][(dag' # dag \/ setInputCalls' > setInputCalls)
          => (undoOpen = 1 /\ undoClosed = 0 /\ undoOpen' = 1 /\ undoClosed' = 0)]_vars

\* C19 witness: an import that created a host node has ended in an exception
\* with its undo group closed.
UndoClosedAfterException ==
  /\ ipc = "raised"
  /\ ThisPass # {}
  /\ undoOpen = 1
  /\ undoClosed = 1

\* The slot the link should use for the answer m of dst.maxInputs(): the
\* requested one if it is an integer in 0 .. m-1, else 0.
SlotFor(r, m) == IF r.t = "int" /\ r.v >= 0 /\ r.v < m THEN r.v ELSE 0

\* C20: a well-formed link between two created nodes always reaches setInput,
\* with the requested slot when that is a number in 0 .. maxInputs-1 and with
\* slot 0 when it is absent, not a number, negative or at least maxInputs; and
\* it is counted unless setInput raises.
SlotClampedAndConnected ==
  [][/\ (ipc = "k_resolve" /\ Resolves(link))
          => /\ ipc' = "k_set"
             /\ (dstInputs' >= 0 => slot' = SlotFor(link.dst_slot, dstInputs'))
     /\ (ipc = "k_set" /\ faults' = faults)
          => connected' = connected + 1]_vars

\* The same without links whose slot is an infinite float.
SlotClampedUnlessInfinite ==
  [][/\ (ipc = "k_resolve" /\ Resolves(link) /\ link.dst_slot.t # "inf")
          => /\ ipc' = "k_set"
             /\ (dstInputs' >= 0 => slot' = SlotFor(link.dst_slot, dstInputs'))
     /\ (ipc = "k_set" /\ faults' = faults)
          => connected' = connected + 1]_vars

\* ---- the menu (menu.py) ---------------------------------------------------
\* launch_server.py:95-97 with menu.py:150-157: _set_status invokes the
\* menu's callback _on_status_change, which records the status.
on_status_change(t) ==
  /\ pc[t] = "set_cb"
  /\ cb[t] = "ok"
  /\ CURRENT_STATUS' = arg[t]
  /\ delivered' = arg[t]
  /\ pending' = pending - 1
  /\ Return(t)
  /\ UNCHANGED <<shared, unlocked, readerLocals, waiterLocals, mainLocals,
                 toggle, tstatus, importer>>

\* menu.py:172-174: the user picks the menu item (the callback was registered
\* when the menu was loaded); `status = _CURRENT_STATUS`.
toggle_call ==
  /\ pc[Main] = "idle"
  /\ toggle = "none"
  /\ status_cb = "ok"
  /\ tstatus' = CURRENT_STATUS
  /\ toggle' = "called"
  /\ UNCHANGED <<shared, pc, arg, ret, cb, unlocked, cbGhosts, readerLocals,
                 waiterLocals, mainLocals, CURRENT_STATUS, delivered, importer>>

\* A thread for _waiter can be started: none is inside wait_until_ready.
WaiterFree == pc[Waiter] \in WaiterOut \ {"w_done"}

\* menu.py:175-187: stop_comfyui_server is called for "running" and
\* "already_running", nothing is done for "launching", and otherwise
\* _launch_and_wait (160-164) records "launching" and calls
\* launch_comfyui_server.
toggle_branch ==
  /\ toggle = "called"
  /\ IF tstatus \in {"running", "already_running"}
       THEN /\ Goto(Main, "s_check")
            /\ proc' = process
            /\ unlocked' = Access(Main, "process")
            /\ stopSince' = TRUE
            /\ path' = "none"
            /\ toggle' = "stop"
            /\ UNCHANGED <<CURRENT_STATUS, spawnedAtCall>>
       ELSE IF tstatus = "launching"
              THEN /\ toggle' = "none"
                   /\ UNCHANGED <<pc, arg, ret, mainLocals, unlocked, CURRENT_STATUS>>
              ELSE /\ WaiterFree
                   /\ CURRENT_STATUS' = "launching"
                   /\ Goto(Main, "l_check")
                   /\ stopSince' = FALSE
                   /\ spawnedAtCall' = lastChild
                   /\ path' = "none"
                   /\ toggle' = "launch"
                   /\ UNCHANGED <<proc, unlocked>>
  /\ tstatus' = "idle"
  /\ UNCHANGED <<shared, cb, cbGhosts, readerLocals, waiterLocals, delivered,
                 importer>>

\* menu.py:165-169 with launch_server.py:107-109: launch has returned; the
\* _waiter thread is started and enters wait_until_ready(45.0).
toggle_start_waiter ==
  /\ toggle = "launch"
  /\ pc[Main] = "idle"
  /\ toggle' = "none"
  /\ status' = "unbound"
  /\ result' = "none"
  /\ sawExit' = FALSE
  /\ Goto(Waiter, "w_read")
  /\ UNCHANGED <<shared, cb, unlocked, cbGhosts, readerLocals, mainLocals,
                 CURRENT_STATUS, tstatus, delivered, importer>>

\* menu.py:178-179: stop has returned; _on_status_change("stopped").
toggle_stopped ==
  /\ toggle = "stop"
  /\ pc[Main] = "idle"
  /\ toggle' = "none"
  /\ CURRENT_STATUS' = "stopped"
  /\ UNCHANGED <<shared, pc, arg, ret, cb, unlocked, cbGhosts, readerLocals,
                 waiterLocals, mainLocals, tstatus, delivered, importer>>

\* menu.py:167-168: wait_until_ready has returned; _on_status_change(status).
waiter_report ==
  /\ pc[Waiter] = "w_done"
  /\ CURRENT_STATUS' = result
  /\ result' = "none"
  /\ Goto(Waiter, "idle")
  /\ UNCHANGED <<shared, cb, unlocked, cbGhosts, readerLocals, status, sawExit,
                 mainLocals, toggle, tstatus, delivered, importer>>

\* The supervisor as the menu drives it: launch and stop are called by
\* _toggle_server only, every launch is followed by a _waiter thread, and the
\* callback is the menu's.
NextMenu ==
  \/ set_status_callback("ok")
  \/ \E t \in Threads : set_status_store(t)
  \/ \E t \in Threads : set_status_release(t)
  \/ \E t \in Threads : on_status_change(t)
  \/ toggle_call
  \/ toggle_branch
  \/ toggle_start_waiter
  \/ toggle_stopped
  \/ waiter_report
  \/ launch_check
  \/ launch_build
  \/ launch_spawn
  \/ launch_thread
  \/ launch_grace
  \/ launch_return
  \/ stop_check
  \/ stop_terminate
  \/ stop_kill
  \/ stop_finally
  \/ stop_return
  \/ \E p \in Procs, line \in Lines : reader_readline(p, line)
  \/ \E p \in Procs : reader_current(p)
  \/ \E p \in Procs : reader_exit(p)
  \/ \E p \in Procs : child_exit(p)
  \/ wait_read
  \/ wait_terminal
  \/ wait_process
  \/ wait_poll
  \/ wait_return_error
  \/ wait_event
  \/ wait_timeout

SpecMenu == InitCb /\ [][NextMenu]_vars

\* What the threads of the program do by themselves: every step except the
\* user picking the menu item, the child exiting and the child printing a URL.
UIStep ==
  \/ set_status_callback("ok")
  \/ set_status_store(Main) \/ set_status_release(Main) \/ on_status_change(Main)
  \/ toggle_branch \/ toggle_start_waiter \/ toggle_stopped
  \/ launch_check \/ launch_build \/ launch_spawn \/ launch_thread
  \/ launch_grace \/ launch_return
  \/ stop_check \/ stop_terminate \/ stop_kill \/ stop_finally \/ stop_return

ReaderStep(p) ==
  \/ set_status_store(p) \/ set_status_release(p) \/ on_status_change(p)
  \/ reader_readline(p, "eof") \/ reader_current(p) \/ reader_exit(p)

WaiterStep ==
  \/ set_status_store(Waiter) \/ set_status_release(Waiter) \/ on_status_change(Waiter)
  \/ wait_read \/ wait_terminal \/ wait_process \/ wait_poll
  \/ wait_return_error \/ wait_event \/ wait_timeout \/ waiter_report

\* launch_server.py:108-109: the deadline of wait_until_ready passes.
TimeoutElapses == wait_event /\ pc'[Waiter] = "w_timeout"

\* Every thread that can run does run (also when it has to wait for the lock),
\* and the waiter's timeout elapses.  Nothing is assumed of the user or of the
\* child process.
SpecMenuFair ==
  /\ SpecMenu
  /\ SF_vars(UIStep)
  /\ \A p \in Procs : SF_vars(ReaderStep(p))
  /\ SF_vars(WaiterStep)
  /\ SF_vars(TimeoutElapses)

\* ---- properties of the supervisor, continued ------------------------------
\* C22: whenever the status is "stopped" and no launch or stop call is in
\* progress, the process handle does not refer to a live child.
StoppedMeansNoLiveChild ==
  (last_status = "stopped" /\ pc[Main] = "idle")
    => (process = NoProc \/ ~Live(process))

\* C23: once every spawned child has exited and its reader thread has
\* finished, and no launch or stop call is in progress, the status is neither
\* "running" nor "already_running".
ExitedChildIsNotRunning ==
  (/\ Spawned # {}
   /\ \A p \in Spawned : ~Live(p) /\ pc[p] = "done"
   /\ pc[Main] = "idle")
    => last_status \notin {"running", "already_running"}

\* C21: once no launch or stop call is running, every reader and the waiter
\* have finished and every stored status has been delivered, the status last
\* passed to the callback is the stored status.
CallbackAgreesWhenQuiescent ==
  (/\ Quiescent
   /\ toggle = "none"
   /\ pc[Waiter] \in WaiterOut
   /\ pending = 0
   /\ status_cb = "ok")
    => delivered = last_status

\* C24: whenever the menu's tracked status is "launching" it eventually is
\* something else, so that the toggle is not ignored for ever.
MenuLeavesLaunching ==
  (CURRENT_STATUS = "launching") ~> (CURRENT_STATUS # "launching")

====
